---------------------------- MODULE Spec2Model ----------------------------
(***************************************************************************)
(* Wordle-Solver: the feedback encoder, the pattern cache, the candidate   *)
(* filter, the minimax-entropy selector (standard and hard mode), the      *)
(* interactive game loops and the batch simulation harness.                *)
(*                                                                         *)
(* A word is a tuple of one-character strings, a feedback pattern a tuple  *)
(* of the characters "0" (gray), "1" (yellow), "2" (green).                *)
(***************************************************************************)
EXTENDS Integers, Sequences, FiniteSets, TLC

VARIABLES
    call,                   \* a single function call: its name and arguments
    result,                 \* what the call returned (Nothing before it ran)
    allowed_guesses,        \* solver.allowed_guesses, read from the word file
    possible_answers,       \* solver.possible_answers, read from the word file
    cache_file,             \* feedback_patterns_cache.pkl on disk
    first_guess_cache,      \* solver._first_guess_cache (Nothing for None)
    precomputed_patterns,   \* solver._precomputed_patterns
    cache_dirty,            \* solver._cache_dirty
    pc,                     \* where the running program stands
    mode,                   \* "std": standard rules, "hard": hard mode
    answer,                 \* the answer argument (Nothing: interactive)
    guesses,                \* the game's list guesses
    feedbacks,              \* the game's list feedbacks
    possible,               \* the game's list possible
    attempt,                \* the loop variable attempt
    futures,                \* the batch: answer -> state of its future
    as_completed,           \* the batch: answers whose future was yielded
    results,                \* the batch: the list results
    average                 \* the batch: what average_tries*.txt holds

callVars == <<call, result>>
fileVars == <<allowed_guesses, possible_answers, cache_file, first_guess_cache>>
cacheVars == <<precomputed_patterns, cache_dirty>>
gameVars == <<pc, mode, answer, guesses, feedbacks, possible, attempt>>
batchVars == <<futures, as_completed, results, average>>
vars == <<callVars, fileVars, cacheVars, gameVars, batchVars>>

(***************************************************************************)
(* Basic values                                                            *)
(***************************************************************************)
\* range(5) of get_feedback: the fixed word length
WordLen == 5
\* Python's None in a slot of answer_copy
None == "None"
\* Python's None / empty value where a word or a container is expected
Nothing == <<>>

Positions == 1..WordLen

(***************************************************************************)
(* Python's evaluation order.  A statement is finished before the next one *)
(* starts, and a for loop runs its iterations one after the other.         *)
(***************************************************************************)
\* "x = value" followed by the statements Rest(x): the value is worked out
\* first
Eval(value, Rest(_)) == CHOOSE r \in {Rest(x) : x \in {value}} : TRUE

\* the iterations lo..hi (lo <= hi) of a loop on the state acc: those of the
\* first half of the range, then those of the second half on the state the
\* first half leaves
RECURSIVE Loop(_, _, _, _)
Loop(Body(_, _), lo, hi, acc) ==
    IF lo = hi THEN Body(acc, lo)
    ELSE CHOOSE r \in {Loop(Body, (lo + hi) \div 2 + 1, hi, half) :
                          half \in {Loop(Body, lo, (lo + hi) \div 2, acc)}} : TRUE

\* "for i in range(lo, hi + 1): acc = Body(acc, i)"
For(lo, hi, acc, Body(_, _)) ==
    IF lo > hi THEN acc
    ELSE Eval(acc, LAMBDA start : Loop(Body, lo, hi, start))

(***************************************************************************)
(* Lists                                                                   *)
(***************************************************************************)
Range(seq) == {seq[i] : i \in 1..Len(seq)}

\* "x in list"
InList(x, seq) == \E i \in 1..Len(seq) : seq[i] = x

\* some enumeration of a finite set (a Python set has no meaningful order)
SetToSeq(S) ==
    For(1, Cardinality(S), <<>>,
        LAMBDA seq, i : Append(seq, CHOOSE x \in S \ Range(seq) : TRUE))

AllExact == <<"2", "2", "2", "2", "2">>

\* "for attempt in range(1, 7)": six guesses a game
MaxAttempts == 6

(***************************************************************************)
(* solver.get_feedback (helper.get_feedback is the same text)              *)
(***************************************************************************)
\* feedback = ['0'] * 5
Zeros == <<"0", "0", "0", "0", "0">>

\* First pass at position i: an exact match is marked '2' in feedback and
\* consumed (set to None) in answer_copy.  p is [feedback, copy].
Pass1(guess, secret, p, i) ==
    IF guess[i] = secret[i]
    THEN [feedback |-> [p.feedback EXCEPT ![i] = "2"],
          copy |-> [p.copy EXCEPT ![i] = None]]
    ELSE p

\* the inner "for j in range(5)" loop: first slot of answer_copy holding letter
FirstOccurrence(copy, letter) ==
    CHOOSE j \in Positions :
        /\ copy[j] = letter
        /\ \A k \in 1..(j - 1) : copy[k] # letter

\* a second pass that marks a letter MISPLACED without consuming anything
Pass2NoConsume(guess, p, i) ==
    IF p.feedback[i] = "0" /\ \E j \in Positions : p.copy[j] = guess[i]
    THEN [feedback |-> [p.feedback EXCEPT ![i] = "1"], copy |-> p.copy]
    ELSE p

\* a second pass that never marks a letter MISPLACED
Pass2NoMisplaced(guess, p, i) == p

\* Second pass at position i: a letter not yet marked that answer_copy still
\* holds is marked '1' and its first occurrence consumed.
Pass2(guess, p, i) ==
    IF p.feedback[i] = "0" /\ \E j \in Positions : p.copy[j] = guess[i]
    THEN [feedback |-> [p.feedback EXCEPT ![i] = "1"],
          copy |-> [p.copy EXCEPT ![FirstOccurrence(p.copy, guess[i])] = None]]
    ELSE p

\* the second loop run on the state p the first loop leaves
SecondPass(guess, p) ==
    For(1, WordLen, p, LAMBDA q, i : Pass2(guess, q, i)).feedback

get_feedback(guess, secret) ==
    Eval(For(1, WordLen, [feedback |-> Zeros, copy |-> secret],
             LAMBDA p, i : Pass1(guess, secret, p, i)),
         LAMBDA p : SecondPass(guess, p))

(***************************************************************************)
(* IEEE-754 double arithmetic of the score "sum((count/total) * count ...)" *)
(* of minimax_entropy.  Every double met there is a multiple of 2^-60 below *)
(* 2^12 (counts and totals stay below 128), so a double is held exactly as  *)
(* the natural number value * 2^60, in three limbs <<low, middle, high>> of *)
(* 24 bits, and each operation is the exact result rounded to 53            *)
(* significant bits, ties to even.                                          *)
(***************************************************************************)
\* bits of one limb
LimbBits == 24
LimbBase == 2 ^ LimbBits
\* significant bits of a double
Mantissa == 53
\* fraction bits of the fixed-point form
FracBits == 60

\* number of significant bits of x, a natural number below LimbBase
BitLen(x) ==
    IF x = 0 THEN 0
    ELSE CHOOSE b \in 1..LimbBits : 2 ^ (b - 1) <= x /\ x < 2 ^ b

\* number of significant bits of the number held in limbs n
LimbsBitLen(n) ==
    IF n[3] > 0 THEN 2 * LimbBits + BitLen(n[3])
    ELSE IF n[2] > 0 THEN LimbBits + BitLen(n[2])
    ELSE BitLen(n[1])

\* carry propagation after a limb-wise operation
Normalize(n) ==
    LET c1 == n[1] \div LimbBase
        m2 == n[2] + c1
        c2 == m2 \div LimbBase
    IN  <<n[1] % LimbBase, m2 % LimbBase, n[3] + c2>>

LimbsAdd(a, b) == Normalize(<<a[1] + b[1], a[2] + b[2], a[3] + b[3]>>)
LimbsMul(a, k) == Normalize(<<a[1] * k, a[2] * k, a[3] * k>>)

\* floor(a / k) and whether a remainder is left, k a small positive integer
LimbsDiv(a, k) ==
    LET q3 == a[3] \div k
        r3 == a[3] % k
        t2 == r3 * LimbBase + a[2]
        q2 == t2 \div k
        r2 == t2 % k
        t1 == r2 * LimbBase + a[1]
    IN  [q |-> <<t1 \div k, q2, q3>>, inexact |-> (t1 % k) # 0]

\* the limbs of v * 2^e, v a small natural number, 0 <= e < 3 * LimbBits
LimbsShl(v, e) ==
    LET limb == e \div LimbBits
        sh == 2 ^ (e % LimbBits)
    IN  Normalize(<<IF limb = 0 THEN v * sh ELSE 0,
                    IF limb = 1 THEN v * sh ELSE 0,
                    IF limb = 2 THEN v * sh ELSE 0>>)

\* round to nearest, ties to even: n is the integer part of the exact
\* result and sticky tells that the exact result lies strictly above n
RoundDouble(n, sticky) ==
    LET d == LimbsBitLen(n) - Mantissa
    IN  IF d <= 0 THEN n
        ELSE LET unit == 2 ^ d
                 r == n[1] % unit
                 half == unit \div 2
                 odd == (n[1] \div unit) % 2 = 1
                 up == \/ r > half
                       \/ r = half /\ (sticky \/ odd)
             IN  Normalize(<<n[1] - r + (IF up THEN unit ELSE 0), n[2], n[3]>>)

\* count / total: true division of two ints, correctly rounded
FloatDiv(count, total) ==
    Eval(LimbsDiv(LimbsShl(count, FracBits + 1), total),
         LAMBDA d : Eval(RoundDouble(d.q, d.inexact),
                         LAMBDA r : LimbsDiv(r, 2).q))

\* double * int
FloatMul(x, count) == RoundDouble(LimbsMul(x, count), FALSE)

\* double + double
FloatAdd(x, y) == RoundDouble(LimbsAdd(x, y), FALSE)

\* x < y on doubles
FloatLess(x, y) ==
    \/ x[3] < y[3]
    \/ x[3] = y[3] /\ x[2] < y[2]
    \/ x[3] = y[3] /\ x[2] = y[2] /\ x[1] < y[1]

FloatZero == <<0, 0, 0>>

\* (count/total) * count
Term(count, total) ==
    Eval(FloatDiv(count, total), LAMBDA q : FloatMul(q, count))

\* sum(...) over a list of doubles, left to right from 0
SumTerms(counts, total) ==
    For(1, Len(counts), FloatZero,
        LAMBDA sum, i : Eval(Term(counts[i], total),
                             LAMBDA t : FloatAdd(sum, t)))

\* total = sum(pattern_counts.values())
Total(counts) == For(1, Len(counts), 0, LAMBDA sum, i : sum + counts[i])

\* expected = sum((count/total) * count for count in pattern_counts.values())
Expected(counts) == Eval(Total(counts), LAMBDA total : SumTerms(counts, total))

(***************************************************************************)
(* The pattern cache _precomputed_patterns: a dict answer -> dict          *)
(* guess -> pattern, held as a function of functions.  {} is the empty     *)
(* function.                                                               *)
(***************************************************************************)
EmptyCache == <<>>

\* "if _precomputed_patterns:" -- a dict is true when it has a key
Truthy(cache) == DOMAIN cache # {}

HasRow(cache, word) == word \in DOMAIN cache
HasPair(cache, word, guess) ==
    word \in DOMAIN cache /\ guess \in DOMAIN cache[word]

\* _precomputed_patterns[word] = {}
NewRow(cache, word) == (word :> <<>>) @@ cache

\* a row that is started afresh whether or not the cache holds it

\* "if word not in _precomputed_patterns: _precomputed_patterns[word] = {}"
WithRow(cache, word) ==
    IF HasRow(cache, word) THEN cache ELSE NewRow(cache, word)

\* _precomputed_patterns[word][guess] = pattern (the row exists)
StorePair(cache, word, guess, pattern) ==
    [cache EXCEPT ![word] = (guess :> pattern) @@ @]

\* the pattern is stored, _cache_dirty is set, the entry is read back
Stored(cache, word, guess, pattern) ==
    [cache |-> StorePair(cache, word, guess, pattern), dirty |-> TRUE,
     pattern |-> StorePair(cache, word, guess, pattern)[word][guess]]

\* a miss that stores the pattern and leaves _cache_dirty as it was
MissNoDirty(st, word, guess) ==
    [cache |-> StorePair(WithRow(st.cache, word), word, guess,
                         get_feedback(guess, word)),
     dirty |-> st.dirty, pattern |-> get_feedback(guess, word)]

\* A lookup of the "if _precomputed_patterns:" branch when the entry is
\* missing: the row is created if need be, the pattern computed and stored,
\* _cache_dirty set, the entry read.  st holds the fields cache and dirty;
\* the result is [cache, dirty, pattern].
Miss(st, word, guess) ==
    Eval(get_feedback(guess, word),
         LAMBDA pattern : Stored(WithRow(st.cache, word), word, guess, pattern))

\* the same lookup when the entry is there: it is read, nothing changes
Hit(st, word, guess) ==
    [cache |-> st.cache, dirty |-> st.dirty, pattern |-> st.cache[word][guess]]

\* one lookup, as both filter_possible_answers and minimax_entropy write it
Lookup(st, word, guess) ==
    IF HasPair(st.cache, word, guess) THEN Hit(st, word, guess)
    ELSE Miss(st, word, guess)

\* "table[answer] = {}" and the loop "for guess in guess_list:
\* table[answer][guess] = get_feedback(guess, answer)"
FillRow(table, word, guess_list) ==
    For(1, Len(guess_list), NewRow(table, word),
        LAMBDA t, j : Eval(get_feedback(guess_list[j], word),
                           LAMBDA pattern :
                               StorePair(t, word, guess_list[j], pattern)))

\* the loop "for answer in answers" around it
FillTable(table, answers, guess_list) ==
    For(1, Len(answers), table, LAMBDA t, i : FillRow(t, answers[i], guess_list))

(***************************************************************************)
(* solver.filter_possible_answers                                          *)
(***************************************************************************)
\* "if _precomputed_patterns[word][guess] == feedback:
\* new_filtered.append(word)" after the lookup r
Keep(new_filtered, word, feedback, r) ==
    [cache |-> r.cache, dirty |-> r.dirty,
     filtered |-> IF r.pattern = feedback THEN Append(new_filtered, word)
                  ELSE new_filtered]

\* the loop "for word in filtered_answers" of the cached branch, on the
\* cache state st
FilterCached(words, guess, feedback, st) ==
    For(1, Len(words),
        [cache |-> st.cache, dirty |-> st.dirty, filtered |-> <<>>],
        LAMBDA acc, k : Eval(Lookup(acc, words[k], guess),
                             LAMBDA r : Keep(acc.filtered, words[k], feedback, r)))

\* a comprehension that keeps the words whose pattern differs
FilterPlainDrop(words, guess, feedback) ==
    SelectSeq(words, LAMBDA w : get_feedback(guess, w) # feedback)

\* the fallback list comprehension
FilterPlain(words, guess, feedback) ==
    SelectSeq(words, LAMBDA w : get_feedback(guess, w) = feedback)

\* zip(gs, fbs) stops at the shorter list
ZipLen(gs, fbs) ==
    IF Len(gs) < Len(fbs) THEN Len(gs) ELSE Len(fbs)

\* a loop body that ignores every pair but the last
FilterPairLastOnly(gs, fbs, k, acc) ==
    IF k < ZipLen(gs, fbs) THEN acc
    ELSE [cache |-> acc.cache, dirty |-> acc.dirty,
          filtered |-> FilterPlain(acc.filtered, gs[k], fbs[k])]

\* the body of the loop "for guess, feedback in zip(gs, fbs)" for pair k;
\* acc is [cache, dirty, filtered]
FilterPair(gs, fbs, k, acc) ==
    IF Truthy(acc.cache)
    THEN FilterCached(acc.filtered, gs[k], fbs[k], acc)
    ELSE [cache |-> acc.cache, dirty |-> acc.dirty,
          filtered |-> FilterPlain(acc.filtered, gs[k], fbs[k])]

\* filter_possible_answers(gs, fbs) run on the cache state
\* [cache, dirty] with the module's answer list: the list returned and the
\* cache state left behind
filter_possible_answers(gs, fbs, answers, cache, dirty) ==
    For(1, ZipLen(gs, fbs),
        [cache |-> cache, dirty |-> dirty, filtered |-> answers],
        LAMBDA acc, k : FilterPair(gs, fbs, k, acc))

(***************************************************************************)
(* solver.minimax_entropy                                                  *)
(***************************************************************************)
Returned(word) == [kind |-> "return", value |-> word]
Raised(error) == [kind |-> "raise", value |-> error]

\* float('inf'): above every score
FloatInf == <<0, 0, LimbBase>>

\* The dict pattern_counts is held as the list of its <<key, value>> items
\* in insertion order.
HasKey(items, key) == \E i \in 1..Len(items) : items[i][1] = key
KeyIndex(items, key) == CHOOSE i \in 1..Len(items) : items[i][1] = key

\* pattern_counts[pattern] = pattern_counts.get(pattern, 0) + 1
Count(items, pattern) ==
    IF HasKey(items, pattern)
    THEN [items EXCEPT ![KeyIndex(items, pattern)] = <<pattern, @[2] + 1>>]
    ELSE Append(items, <<pattern, 1>>)

\* pattern_counts.values()
Values(items) == [i \in 1..Len(items) |-> items[i][2]]

\* the pattern read by the lookup r is counted
Counted(pattern_counts, r) ==
    [cache |-> r.cache, dirty |-> r.dirty,
     pattern_counts |-> Count(pattern_counts, r.pattern)]

\* the fallback loop body: the pattern is computed and counted
CountPlain(acc, word, guess) ==
    Eval(get_feedback(guess, word),
         LAMBDA pattern : [cache |-> acc.cache, dirty |-> acc.dirty,
                           pattern_counts |-> Count(acc.pattern_counts, pattern)])

\* Lines 145-161 for one guess on the cache state st: the loop "for answer
\* in possible_answers" of the branch "if _precomputed_patterns:" takes,
\* giving [cache, dirty, pattern_counts]
ScoreLookups(cands, guess, st) ==
    IF Truthy(st.cache)
    THEN For(1, Len(cands),
             [cache |-> st.cache, dirty |-> st.dirty, pattern_counts |-> <<>>],
             LAMBDA acc, k : Eval(Lookup(acc, cands[k], guess),
                                  LAMBDA r : Counted(acc.pattern_counts, r)))
    ELSE For(1, Len(cands),
             [cache |-> st.cache, dirty |-> st.dirty, pattern_counts |-> <<>>],
             LAMBDA acc, k : CountPlain(acc, cands[k], guess))

\* lines 166-170: expected against best_score; acc is the loop state, r the
\* cache state the lookups of the guess left
Compare(acc, guess, r, expected) ==
    IF FloatLess(expected, acc.best_score)
    THEN [cache |-> r.cache, dirty |-> r.dirty,
          best_score |-> expected, best_guesses |-> <<guess>>]
    ELSE IF expected = acc.best_score
    THEN [cache |-> r.cache, dirty |-> r.dirty,
          best_score |-> acc.best_score,
          best_guesses |-> Append(acc.best_guesses, guess)]
    ELSE [cache |-> r.cache, dirty |-> r.dirty,
          best_score |-> acc.best_score, best_guesses |-> acc.best_guesses]

\* lines 163-170 once the lookups of the guess are done
Scored(acc, guess, r) ==
    Eval(Expected(Values(r.pattern_counts)),
         LAMBDA expected : Compare(acc, guess, r, expected))

\* the body of the loop "for guess in guess_pool"
ScoreGuess(acc, guess, cands) ==
    Eval(ScoreLookups(cands, guess, acc), LAMBDA r : Scored(acc, guess, r))

\* The loop "for guess in guess_pool" on the cache state [cache, dirty]:
\* the cache state, best_score and best_guesses it ends with
ScorePool(pool, cands, cache, dirty) ==
    For(1, Len(pool),
        [cache |-> cache, dirty |-> dirty,
         best_score |-> FloatInf, best_guesses |-> <<>>],
        LAMBDA acc, k : ScoreGuess(acc, pool[k], cands))

\* the first element of seq that is in the list cands, or Nothing
FirstIn(seq, cands) ==
    IF \E i \in 1..Len(seq) : InList(seq[i], cands)
    THEN seq[CHOOSE i \in 1..Len(seq) :
                 /\ InList(seq[i], cands)
                 /\ \A j \in 1..(i - 1) : ~InList(seq[j], cands)]
    ELSE Nothing

\* lines 172-179 for an ordered pool: the word returned
PickOrdered(best_guesses, cands, allowed) ==
    IF best_guesses = <<>> THEN allowed[1]
    ELSE IF FirstIn(best_guesses, cands) # Nothing
         THEN FirstIn(best_guesses, cands)
         ELSE best_guesses[1]

\* lines 172-179 for a pool that is list(set(...)): the iteration order of a
\* set of strings is not fixed, so best_guesses may come in any order and
\* any tied candidate (no tied candidate: any tied word) may be the first
PickUnordered(best_guesses, cands, allowed) ==
    IF best_guesses = <<>> THEN {allowed[1]}
    ELSE IF \E g \in Range(best_guesses) : InList(g, cands)
         THEN {g \in Range(best_guesses) : InList(g, cands)}
         ELSE Range(best_guesses)

\* lines 126-129: the word of the precomputed first guess, when the shortcut
\* applies, else Nothing.  fgc is _first_guess_cache (Nothing for None),
\* answers the content of possible_wordle_answers.txt.
FirstGuessShortcut(cands, allowed, fgc, answers) ==
    IF fgc # Nothing /\ Range(cands) = Range(answers)
    THEN LET fg == IF "minimax_entropy" \in DOMAIN fgc
                   THEN fgc["minimax_entropy"] ELSE Nothing
         IN  IF fg # Nothing /\ (InList(fg, allowed) \/ InList(fg, cands))
             THEN fg ELSE Nothing
    ELSE Nothing

\* lines 138-142: the guess pool, Ordered when it is the candidate list itself
Ordered(cands) == Len(cands) <= 2
GuessPool(cands, allowed) ==
    IF Ordered(cands) THEN cands
    ELSE SetToSeq(Range(allowed) \cup Range(cands))

\* lines 172-179 on the loop state r the pool finished with
Pick(r, cands, allowed) ==
    [outcomes |->
         IF Ordered(cands)
         THEN {Returned(PickOrdered(r.best_guesses, cands, allowed))}
         ELSE {Returned(g) : g \in PickUnordered(r.best_guesses, cands, allowed)},
     cache |-> r.cache, dirty |-> r.dirty]

\* the shortcut applied: its word is returned, the cache is not touched
Shortcut(fg, cache, dirty) ==
    [outcomes |-> {Returned(fg)}, cache |-> cache, dirty |-> dirty]

\* minimax_entropy(cands, allowed) run on the cache state [cache, dirty]:
\* the set of outcomes the call can have (a word returned, or ValueError
\* raised) and the cache state it leaves behind
minimax_entropy(cands, allowed, cache, dirty, fgc, answers) ==
    IF FirstGuessShortcut(cands, allowed, fgc, answers) # Nothing
    THEN Shortcut(FirstGuessShortcut(cands, allowed, fgc, answers), cache, dirty)
    ELSE IF Len(cands) = 0
    THEN [outcomes |-> {Raised("ValueError")}, cache |-> cache, dirty |-> dirty]
    ELSE IF Len(cands) = 1
    THEN [outcomes |-> {Returned(cands[1])}, cache |-> cache, dirty |-> dirty]
    ELSE Eval(GuessPool(cands, allowed),
              LAMBDA guess_pool :
                  Eval(ScorePool(guess_pool, cands, cache, dirty),
                       LAMBDA r : Pick(r, cands, allowed)))

(***************************************************************************)
(* solver_hard_mode.enforce_hard_mode_constraints                          *)
(***************************************************************************)
\* zip(prev_guess, fb): the positions both strings have
ZipPositions(prev_guess, fb) ==
    {i \in 1..Len(prev_guess) : i <= Len(fb)}

\* green_positions after the pairs k.. of the history are folded in
RECURSIVE GreenFold(_, _, _, _)
GreenFold(gs, fbs, k, green) ==
    IF k > ZipLen(gs, fbs) THEN green
    ELSE GreenFold(gs, fbs, k + 1,
            [i \in Positions |->
                IF i \in ZipPositions(gs[k], fbs[k]) /\ fbs[k][i] = "2"
                THEN gs[k][i] ELSE green[i]])

\* yellow_positions after the pairs k.. are folded in, as the set of
\* <<letter, position>> it holds; yellow_letters are the letters in it
RECURSIVE YellowFold(_, _, _, _)
YellowFold(gs, fbs, k, yellow) ==
    IF k > ZipLen(gs, fbs) THEN yellow
    ELSE YellowFold(gs, fbs, k + 1,
            yellow \cup {<<gs[k][i], i>> :
                            i \in {j \in ZipPositions(gs[k], fbs[k]) :
                                      fbs[k][j] = "1"}})

\* a check of the yellow constraints that forgets the forbidden positions
YellowOkNoPosition(yellow, guess) ==
    \A y \in yellow : \E i \in Positions : guess[i] = y[1]

\* a check that takes the yellow letters for letters the word must not hold
YellowOkForbidden(yellow, guess) ==
    \A y \in yellow : \A i \in Positions : guess[i] # y[1]

\* lines 27-32: every yellow letter is in the guess, at none of its
\* forbidden positions
YellowOk(yellow, guess) ==
    \A y \in yellow :
        /\ \E i \in Positions : guess[i] = y[1]
        /\ guess[y[2]] # y[1]

\* lines 23-25: every pinned position holds its letter
GreenOk(green, guess) ==
    \A i \in Positions : green[i] # None => guess[i] = green[i]

enforce_hard_mode_constraints(gs, fbs, guess) ==
    /\ GreenOk(GreenFold(gs, fbs, 1, [i \in Positions |-> None]), guess)
    /\ YellowOk(YellowFold(gs, fbs, 1, {}), guess)

(***************************************************************************)
(* solver_hard_mode.minimax_entropy_hard_mode                              *)
(***************************************************************************)
\* valid_allowed / valid_possible: the legal words, or the whole list when
\* none is legal
ValidOrAll(words, gs, fbs) ==
    LET valid == SelectSeq(words,
                     LAMBDA w : enforce_hard_mode_constraints(gs, fbs, w))
    IN  IF valid = <<>> THEN words ELSE valid

minimax_entropy_hard_mode(cands, allowed, gs, fbs, cache, dirty, fgc, answers) ==
    minimax_entropy(ValidOrAll(cands, gs, fbs), ValidOrAll(allowed, gs, fbs),
                    cache, dirty, fgc, answers)

\* "a, b = value": unpacking into two targets needs exactly two items
Unpack2(value) ==
    IF Len(value) = 2
    THEN [ok |-> TRUE, first |-> value[1], second |-> value[2]]
    ELSE [ok |-> FALSE, first |-> Nothing, second |-> Nothing]

(***************************************************************************)
(* The persisted artifacts                                                 *)
(***************************************************************************)
\* optimize_cache.create_optimization_cache, cache 1: every answer against
\* every allowed guess
OptimizationCache(allowed, answers) == FillTable(EmptyCache, answers, allowed)

\* guess_subset = allowed_guesses[:1000]
GuessSubsetSize == 1000
GuessSubset(allowed) ==
    SubSeq(allowed, 1, IF Len(allowed) < GuessSubsetSize THEN Len(allowed)
                       ELSE GuessSubsetSize)

\* first_guesses['minimax_entropy'] = best_guess
FirstGuesses(best_guesses) ==
    [minimax_entropy |->
        IF best_guesses = <<>> THEN Nothing ELSE best_guesses[1]]

\* optimize_cache.create_optimization_cache, cache 3: the first word of the
\* subset with the strictly smallest score ('letter_freq' is never read)
FirstGuessArtifact(allowed, answers) ==
    FirstGuesses(ScorePool(GuessSubset(allowed), answers,
                           EmptyCache, FALSE).best_guesses)

\* how `with open(_cache_file, 'wb') as f: pickle.dump(..., f)` can end:
\* the table is written; open itself raises and the file is not touched;
\* or open has created or emptied the file and the dump or the flush raises
SaveOutcomes == {"written", "refused", "truncated"}

\* the file a save attempt of the table data leaves
Dumped(data, file, save) ==
    IF save = "written" THEN [kind |-> "ok", data |-> data]
    ELSE IF save = "truncated" THEN [kind |-> "corrupt"]
    ELSE file

\* the cache filled and the file the save attempt of lines 73-79 leaves
Saved(filled, file, save) ==
    [cache |-> filled, file |-> Dumped(filled, file, save)]

\* solver.precompute_feedback_patterns: the cache and the file it leaves.
\* A readable file is loaded; else every answer gets a fresh row over
\* set(allowed_guesses + possible_answers) and the save is attempted
\* (save tells how the attempt ends).
precompute_feedback_patterns(cache, file, allowed, answers, save) ==
    IF file.kind = "ok"
    THEN [cache |-> file.data, file |-> file]
    ELSE Saved(FillTable(cache, answers,
                         SetToSeq(Range(allowed) \cup Range(answers))),
               file, save)

(***************************************************************************)
(* average_score_calculator.simulate_game and                              *)
(* average_score_calculator_hard_mode.simulate_game_hard_mode              *)
(***************************************************************************)
\* the selector a game calls: minimax_entropy_hard_mode(possible, allowed,
\* guesses, feedbacks) in hard mode, else minimax_entropy(possible, allowed)
StrategyOn(hard, cands, allowed, gs, fbs, cache, dirty, fgc, answers) ==
    IF hard
    THEN minimax_entropy_hard_mode(cands, allowed, gs, fbs, cache, dirty, fgc,
                                   answers)
    ELSE minimax_entropy(cands, allowed, cache, dirty, fgc, answers)

\* The for loop of a simulation from round attempt on: the set of outcomes
\* it can end with (an integer returned, or an exception).  sim holds the
\* answer, the word lists and the first-guess cache of the worker process,
\* whose pattern cache is empty: precompute_feedback_patterns is not called.
RECURSIVE SimulateRounds(_, _, _, _, _)

\* lines 14-24 (57-63 in hard mode) once the selector call ended with o:
\* "guess, _ = ..." unpacks the value returned
AfterGuess(sim, round, gs, fbs, cands, o) ==
    IF o.kind = "raise" THEN {o}
    ELSE IF ~Unpack2(o.value).ok THEN {Raised("ValueError")}
    ELSE IF Unpack2(o.value).first = sim.answer THEN {Returned(round)}
    ELSE SimulateRounds(sim, round + 1,
             Append(gs, Unpack2(o.value).first),
             Append(fbs, get_feedback(Unpack2(o.value).first, sim.answer)),
             FilterPlain(cands, Unpack2(o.value).first,
                         get_feedback(Unpack2(o.value).first, sim.answer)))

SimulateRounds(sim, round, gs, fbs, cands) ==
    IF round > MaxAttempts THEN {Returned(MaxAttempts + 1)}
    ELSE UNION {AfterGuess(sim, round, gs, fbs, cands, o) :
                   o \in StrategyOn(sim.hard, cands, sim.allowed, gs, fbs,
                                    EmptyCache, FALSE, sim.fgc,
                                    sim.answers).outcomes}

\* simulate_game(answer, minimax_entropy, allowed, answers) for hard = FALSE,
\* simulate_game_hard_mode(answer) for hard = TRUE
simulate_game(hard, secret, allowed, answers, fgc) ==
    SimulateRounds([hard |-> hard, answer |-> secret, allowed |-> allowed,
                    answers |-> answers, fgc |-> fgc],
                   1, <<>>, <<>>, answers)

\* average = sum(results) / len(results), held as the fraction it is
Average(rs) == [sum |-> Total(rs), len |-> Len(rs)]

(***************************************************************************)
(* Word files the programs are run on, [allowed, answers]                  *)
(***************************************************************************)
\* the word x + "IGHT"
Ight(x) == <<x, "I", "G", "H", "T">>

\* Ladder: thirteen answers that differ in the first letter only; ALDER
\* tells four of them apart, ABYSM three others, PUNCH two more, and no word
\* tells the last four apart better than guessing one of them.
Ladder ==
    [allowed |-> <<<<"A","L","D","E","R">>, <<"A","B","Y","S","M">>,
                   <<"P","U","N","C","H">>>>,
     answers |-> <<Ight("L"), Ight("D"), Ight("E"), Ight("R"),
                   Ight("B"), Ight("S"), Ight("M"),
                   Ight("P"), Ight("N"),
                   Ight("F"), Ight("W"), Ight("K"), Ight("V")>>]

\* Tied: five answers on which the best candidates and the allowed word
\* BCCAE all split 2+1+1+1, the buckets met in different orders.
Tied ==
    [allowed |-> <<<<"A","D","D","E","A">>, <<"B","C","C","A","E">>>>,
     answers |-> <<<<"C","D","A","B","B">>, <<"C","A","B","D","D">>,
                   <<"C","A","D","D","D">>, <<"A","C","C","A","A">>,
                   <<"A","C","C","C","A">>>>]

\* Blind: the one allowed word tells no answer from another.
Blind ==
    [allowed |-> <<<<"A","U","D","I","O">>>>,
     answers |-> <<Ight("E"), Ight("F"), Ight("L")>>]

\* Pinned: ALDER tells four of the six answers apart and TIGHT none; TIGHT
\* is the one allowed word that fits a history that pins IGHT.
Pinned ==
    [allowed |-> <<<<"A","L","D","E","R">>, Ight("T")>>,
     answers |-> <<Ight("L"), Ight("D"), Ight("E"), Ight("R"),
                   Ight("F"), Ight("W")>>]

\* Lit: the Pinned words with one answer, LIGHT, also in the allowed list
Lit ==
    [allowed |-> Append(Pinned.allowed, Ight("L")), answers |-> Pinned.answers]

Vocabularies == {Ladder, Tied, Blind}

\* the first-guess cache file: absent, or as optimize_cache.py writes it
FirstGuessFiles(v) == {Nothing, FirstGuessArtifact(v.allowed, v.answers)}

(***************************************************************************)
(* Idle parts of the state                                                 *)
(***************************************************************************)
NoCall == call = Nothing /\ result = Nothing

NoGame ==
    /\ mode = "std"
    /\ answer = Nothing
    /\ guesses = <<>>
    /\ feedbacks = <<>>
    /\ possible = <<>>
    /\ attempt = 0

\* the solver is not running: nothing is loaded
SolverOff ==
    /\ allowed_guesses = <<>>
    /\ possible_answers = <<>>
    /\ cache_file = [kind |-> "absent"]
    /\ first_guess_cache = Nothing
    /\ precomputed_patterns = EmptyCache
    /\ cache_dirty = FALSE
    /\ pc = "off"
    /\ NoGame

BatchOff ==
    /\ futures = <<>>
    /\ as_completed = {}
    /\ results = <<>>
    /\ average = Nothing

(***************************************************************************)
(* The encoder alone: get_feedback called on every pair of words over a    *)
(* small alphabet, and on SPEED / ERASE                                    *)
(***************************************************************************)
\* number of letters of the alphabet the encoder is checked on exhaustively
FbAlphabetSize == 3
FbAlphabet == <<"A", "B", "C", "D", "E">>
FbLetters == {FbAlphabet[i] : i \in 1..FbAlphabetSize}

SPEED == <<"S", "P", "E", "E", "D">>
ERASE == <<"E", "R", "A", "S", "E">>

FbWords == [Positions -> FbLetters] \cup {SPEED, ERASE}

FeedbackInit ==
    /\ call \in [fn : {"get_feedback"}, guess : FbWords, answer : FbWords]
    /\ result = Nothing
    /\ SolverOff
    /\ BatchOff

\* one call get_feedback(guess, answer)
Encode ==
    /\ call.fn = "get_feedback"
    /\ result = Nothing
    /\ result' = [pattern |-> get_feedback(call.guess, call.answer)]
    /\ UNCHANGED <<call, fileVars, cacheVars, gameVars, batchVars>>

SpecFeedback == FeedbackInit /\ [][Encode]_vars

(***************************************************************************)
(* The cache lookups alone: the candidate filter and the scoring loop of   *)
(* the selector called on every small state of the pattern cache           *)
(***************************************************************************)
LookupAnswers == <<Ight("E"), Ight("F")>>
LookupGuesses == {<<"A","U","D","I","O">>, Ight("E")}

\* a pattern no lookup of these words computes: an entry that holds it was
\* not computed by this encoder
Stale == <<"1", "1", "1", "1", "1">>

\* the rows a cache can hold for word: any of the guesses present, each with
\* the encoder's pattern or the stale one
LookupRows(word) ==
    UNION {{row \in [D -> {get_feedback(g, word) : g \in D} \cup {Stale}] :
               \A g \in D : row[g] \in {get_feedback(g, word), Stale}} :
           D \in SUBSET LookupGuesses}

\* the caches: any of the answers present, each with one of its rows
LookupCaches ==
    UNION {{cache \in [W -> UNION {LookupRows(w) : w \in W}] :
               \A w \in W : cache[w] \in LookupRows(w)} :
           W \in SUBSET Range(LookupAnswers)}

\* the patterns a filter call is given: those of the guess and the stale one
LookupFeedbacks(guess) ==
    {get_feedback(guess, w) : w \in Range(LookupAnswers)} \cup {Stale}

\* the calls: cache and dirty are _precomputed_patterns and _cache_dirty
\* when the call starts
LookupCalls ==
    {[fn |-> "filter_possible_answers", guess |-> g, feedback |-> fb,
      cache |-> c, dirty |-> d] :
        g \in LookupGuesses, fb \in UNION {LookupFeedbacks(h) : h \in LookupGuesses},
        c \in LookupCaches, d \in BOOLEAN}
    \cup
    {[fn |-> "minimax_entropy", guess |-> g, cache |-> c, dirty |-> d] :
        g \in LookupGuesses, c \in LookupCaches, d \in BOOLEAN}

LookupInit ==
    /\ call \in LookupCalls
    /\ result = Nothing
    /\ allowed_guesses = <<>>
    /\ possible_answers = LookupAnswers
    /\ cache_file = [kind |-> "absent"]
    /\ first_guess_cache = Nothing
    /\ precomputed_patterns = EmptyCache
    /\ cache_dirty = FALSE
    /\ pc = "off"
    /\ NoGame
    /\ BatchOff

\* filter_possible_answers([guess], [feedback]): the list returned and the
\* cache state left
CallFilter ==
    /\ call.fn = "filter_possible_answers"
    /\ result = Nothing
    /\ result' = filter_possible_answers(<<call.guess>>, <<call.feedback>>,
                     possible_answers, call.cache, call.dirty)
    /\ UNCHANGED <<call, fileVars, cacheVars, gameVars, batchVars>>

\* minimax_entropy lines 147-162 for one guess of the pool: pattern_counts
\* and the cache state left
CallScore ==
    /\ call.fn = "minimax_entropy"
    /\ result = Nothing
    /\ result' = ScoreLookups(possible_answers, call.guess,
                     [cache |-> call.cache, dirty |-> call.dirty])
    /\ UNCHANGED <<call, fileVars, cacheVars, gameVars, batchVars>>

LookupNext == CallFilter \/ CallScore

SpecLookup == LookupInit /\ [][LookupNext]_vars

(***************************************************************************)
(* Hard mode alone: the legality check and the hard-mode selector called   *)
(* on every short history of a game over the Pinned words                  *)
(***************************************************************************)
\* pairs (guess, pattern) in a history
MaxHistory == 2

HardWords == Range(Pinned.allowed) \cup Range(Pinned.answers)

\* what a round of a game with secret s can add to the history and go on:
\* a guess and the pattern the secret gives it, other than all EXACT (lines
\* 90-93: the game is over and the history cleared)
HardPairs(s) ==
    {[guess |-> g, feedback |-> get_feedback(g, s)] : g \in HardWords \ {s}}

HistoryGuesses(h) ==
    For(1, Len(h), <<>>, LAMBDA gs, k : Append(gs, h[k].guess))
HistoryFeedbacks(h) ==
    For(1, Len(h), <<>>, LAMBDA fbs, k : Append(fbs, h[k].feedback))

\* the calls on a history: the check on every word, and the selector on
\* each of these candidate lists: the list the filter leaves for the
\* history (what the game loop passes), the whole answer list, the answers
\* that fail the legality check, and every one-word list
HardCallsOn(gs, fbs, v) ==
    {[fn |-> "enforce_hard_mode_constraints", guesses |-> gs,
      feedbacks |-> fbs, guess |-> g] : g \in HardWords}
    \cup
    {[fn |-> "minimax_entropy_hard_mode", guesses |-> gs, feedbacks |-> fbs,
      allowed |-> v.allowed, possible |-> c] :
        c \in {filter_possible_answers(gs, fbs, v.answers,
                                       EmptyCache, FALSE).filtered,
               v.answers,
               SelectSeq(v.answers,
                   LAMBDA w : ~enforce_hard_mode_constraints(gs, fbs, w))}
              \cup {<<w>> : w \in Range(v.answers)}}

\* the word files with their first-guess cache file: absent, or as written
HardFirstGuessFiles ==
    UNION {{[words |-> v, first_guesses |-> fg] : fg \in FirstGuessFiles(v)} :
              v \in {Pinned, Lit}}

HardModeInit ==
    /\ \E f \in HardFirstGuessFiles :
          /\ allowed_guesses = f.words.allowed
          /\ possible_answers = f.words.answers
          /\ first_guess_cache = f.first_guesses
          /\ \E s \in Range(f.words.answers), n \in 0..MaxHistory :
                \E h \in [1..n -> HardPairs(s)] :
                    call \in HardCallsOn(HistoryGuesses(h), HistoryFeedbacks(h),
                                         f.words)
    /\ result = Nothing
    /\ cache_file = [kind |-> "absent"]
    /\ precomputed_patterns = EmptyCache
    /\ cache_dirty = FALSE
    /\ pc = "off"
    /\ NoGame
    /\ BatchOff

\* enforce_hard_mode_constraints(guesses, feedbacks, guess)
CheckLegal ==
    /\ call.fn = "enforce_hard_mode_constraints"
    /\ result = Nothing
    /\ result' = [legal |-> enforce_hard_mode_constraints(call.guesses,
                                call.feedbacks, call.guess)]
    /\ UNCHANGED <<call, fileVars, cacheVars, gameVars, batchVars>>

\* minimax_entropy_hard_mode(possible, allowed, guesses, feedbacks)
SelectHard ==
    /\ call.fn = "minimax_entropy_hard_mode"
    /\ result = Nothing
    /\ result' = minimax_entropy_hard_mode(call.possible, call.allowed,
                     call.guesses, call.feedbacks, precomputed_patterns,
                     cache_dirty, first_guess_cache, possible_answers)
    /\ UNCHANGED <<call, fileVars, cacheVars, gameVars, batchVars>>

HardModeNext == CheckLegal \/ SelectHard

SpecHardMode == HardModeInit /\ [][HardModeNext]_vars

(***************************************************************************)
(* The selector alone: minimax_entropy called on the short candidate lists *)
(* and on the whole answer list, for every content of the first-guess      *)
(* cache                                                                   *)
(***************************************************************************)
\* Single: the answer file holds one word.
Single ==
    [allowed |-> <<<<"A","U","D","I","O">>>>,
     answers |-> <<Ight("E")>>]

\* Void: the answer file holds no word.
Void ==
    [allowed |-> <<<<"A","U","D","I","O">>>>,
     answers |-> <<>>]

SelectorVocabularies == {Tied, Blind, Single, Void}

\* the candidate lists: no word, one word, two words, the whole answer list
SelectorCandidates(answers) ==
    {<<>>, answers}
    \cup {<<answers[i]>> : i \in 1..Len(answers)}
    \cup {<<answers[p[1]], answers[p[2]]>> :
              p \in {q \in (1..Len(answers)) \X (1..Len(answers)) :
                         q[1] < q[2]}}

\* a word of neither file
Foreign == <<"Z", "E", "B", "R", "A">>

\* what first_guesses_cache.pkl can hold: no file, the file optimize_cache.py
\* writes, or a file naming any word
FirstGuessContents(v) ==
    FirstGuessFiles(v)
    \cup {FirstGuesses(<<w>>) :
              w \in Range(v.allowed) \cup Range(v.answers) \cup {Foreign}}

SelectorInit ==
    /\ \E v \in SelectorVocabularies :
          /\ allowed_guesses = v.allowed
          /\ possible_answers = v.answers
          /\ first_guess_cache \in FirstGuessContents(v)
          /\ call \in {[fn |-> "minimax_entropy", possible |-> c,
                         allowed |-> v.allowed] :
                            c \in SelectorCandidates(v.answers)}
    /\ result = Nothing
    /\ cache_file = [kind |-> "absent"]
    /\ precomputed_patterns = EmptyCache
    /\ cache_dirty = FALSE
    /\ pc = "off"
    /\ NoGame
    /\ BatchOff

\* minimax_entropy(possible, allowed)
CallSelect ==
    /\ call.fn = "minimax_entropy"
    /\ result = Nothing
    /\ result' = minimax_entropy(call.possible, call.allowed,
                     precomputed_patterns, cache_dirty, first_guess_cache,
                     possible_answers)
    /\ UNCHANGED <<call, fileVars, cacheVars, gameVars, batchVars>>

SpecSelector == SelectorInit /\ [][CallSelect]_vars

(***************************************************************************)
(* The cache operations alone, in any order: precompute_feedback_patterns  *)
(* (the load of the cache file, or the bulk precompute and its save), the  *)
(* lazy fills of the filter and of the selector, and the save of a dirty   *)
(* cache, on the Blind words                                               *)
(***************************************************************************)
\* the module is imported: the cache is empty, the cache file is absent,
\* unreadable, or as optimize_cache.py writes it
CacheInit ==
    /\ NoCall
    /\ allowed_guesses = Blind.allowed
    /\ possible_answers = Blind.answers
    /\ cache_file \in {[kind |-> "absent"], [kind |-> "corrupt"],
                       [kind |-> "ok",
                        data |-> OptimizationCache(Blind.allowed, Blind.answers)]}
    /\ first_guess_cache = Nothing
    /\ precomputed_patterns = EmptyCache
    /\ cache_dirty = FALSE
    /\ pc = "off"
    /\ NoGame
    /\ BatchOff

\* precompute_feedback_patterns()
CachePrecompute ==
    /\ \E save \in SaveOutcomes :
          LET r == precompute_feedback_patterns(precomputed_patterns, cache_file,
                       allowed_guesses, possible_answers, save)
          IN  /\ precomputed_patterns' = r.cache
              /\ cache_file' = r.file
    /\ UNCHANGED <<callVars, allowed_guesses, possible_answers,
                   first_guess_cache, cache_dirty, gameVars, batchVars>>

\* filter_possible_answers([guess], [feedback]) of the first round of a game
CacheFilter ==
    /\ \E g \in Range(allowed_guesses) \cup Range(possible_answers),
          w \in Range(possible_answers) :
          LET r == filter_possible_answers(<<g>>, <<get_feedback(g, w)>>,
                       possible_answers, precomputed_patterns, cache_dirty)
          IN  /\ precomputed_patterns' = r.cache
              /\ cache_dirty' = r.dirty
    /\ UNCHANGED <<callVars, fileVars, gameVars, batchVars>>

\* minimax_entropy(possible, allowed_guesses) on a candidate list
CacheScore ==
    /\ \E c \in SelectorCandidates(possible_answers) :
          LET r == minimax_entropy(c, allowed_guesses, precomputed_patterns,
                                   cache_dirty, first_guess_cache,
                                   possible_answers)
          IN  /\ precomputed_patterns' = r.cache
              /\ cache_dirty' = r.dirty
    /\ UNCHANGED <<callVars, fileVars, gameVars, batchVars>>

\* play_wordle lines 234-241: the save of a dirty cache
CacheSave ==
    /\ cache_dirty
    /\ \E save \in SaveOutcomes :
          /\ cache_file' = Dumped(precomputed_patterns, cache_file, save)
          /\ cache_dirty' = (save # "written")
    /\ UNCHANGED <<callVars, allowed_guesses, possible_answers,
                   first_guess_cache, precomputed_patterns, gameVars,
                   batchVars>>

SpecCache ==
    CacheInit
    /\ [][CachePrecompute \/ CacheFilter \/ CacheScore \/ CacheSave]_vars

(***************************************************************************)
(* The solver programs: solver.py run as a script, play_wordle called with *)
(* a known answer, and solver_hard_mode.py run as a script.                *)
(***************************************************************************)
\* what the user may type at the feedback prompt
Quit == <<"q", "u", "i", "t">>
Malformed == <<"2", "0", "x">>
FeedbackInputs(guess, words) ==
    {get_feedback(guess, w) : w \in words} \cup {Quit, Malformed}

Words == Range(allowed_guesses) \cup Range(possible_answers)

\* the call strategy_func(possible, allowed_guesses) of the running game
Strategy ==
    StrategyOn(mode = "hard", possible, allowed_guesses, guesses, feedbacks,
               precomputed_patterns, cache_dirty, first_guess_cache,
               possible_answers)

SolverInit ==
    /\ \E v \in Vocabularies :
          /\ allowed_guesses = v.allowed
          /\ possible_answers = v.answers
          /\ cache_file \in {[kind |-> "absent"], [kind |-> "corrupt"],
                             [kind |-> "ok",
                              data |-> OptimizationCache(v.allowed, v.answers)]}
          /\ first_guess_cache \in FirstGuessFiles(v)
    /\ precomputed_patterns = EmptyCache
    /\ cache_dirty = FALSE
    /\ pc = "boot"
    /\ NoGame

\* lines 190-192 (61-63 in hard mode): a game starts
NewGame ==
    /\ guesses' = <<>>
    /\ feedbacks' = <<>>
    /\ possible' = possible_answers
    /\ attempt' = 1

\* python solver.py: precompute_feedback_patterns(), play_wordle(minimax_entropy)
MainSolver ==
    /\ pc = "boot"
    /\ \E save \in SaveOutcomes :
          LET r == precompute_feedback_patterns(precomputed_patterns, cache_file,
                       allowed_guesses, possible_answers, save)
          IN  /\ precomputed_patterns' = r.cache
              /\ cache_file' = r.file
    /\ mode' = "std"
    /\ answer' = Nothing
    /\ pc' = "select"
    /\ NewGame
    /\ UNCHANGED <<callVars, allowed_guesses, possible_answers,
                   first_guess_cache, cache_dirty, batchVars>>

\* play_wordle(minimax_entropy, answer) called by an importing program: the
\* cache was never loaded
CallPlayWordle ==
    /\ pc = "boot"
    /\ answer' \in Range(possible_answers)
    /\ mode' = "std"
    /\ pc' = "select"
    /\ NewGame
    /\ UNCHANGED <<callVars, fileVars, cacheVars, batchVars>>

\* python solver_hard_mode.py: play_wordle_hard_mode()
MainHardMode ==
    /\ pc = "boot"
    /\ \E save \in SaveOutcomes :
          LET r == precompute_feedback_patterns(precomputed_patterns, cache_file,
                       allowed_guesses, possible_answers, save)
          IN  /\ precomputed_patterns' = r.cache
              /\ cache_file' = r.file
    /\ mode' = "hard"
    /\ answer' = Nothing
    /\ pc' = "round"
    /\ NewGame
    /\ UNCHANGED <<callVars, allowed_guesses, possible_answers,
                   first_guess_cache, cache_dirty, batchVars>>

\* a round end that never gives the game up
FinishWithNoLimit(gs, fbs, fb, f) ==
    /\ guesses' = gs
    /\ feedbacks' = fbs
    /\ possible' = f.filtered
    /\ precomputed_patterns' = f.cache
    /\ cache_dirty' = f.dirty
    /\ IF fb = AllExact
       THEN pc' = "solved" /\ attempt' = attempt
       ELSE pc' = (IF mode = "hard" THEN "round" ELSE "select")
            /\ attempt' = attempt + 1

\* lines 214-231 once the guess is appended, the feedback fb appended (gs and
\* fbs are the two lists) and the list filtered with result f: the win is
\* tested, the for loop steps
FinishWith(gs, fbs, fb, f) ==
    /\ guesses' = gs
    /\ feedbacks' = fbs
    /\ possible' = f.filtered
    /\ precomputed_patterns' = f.cache
    /\ cache_dirty' = f.dirty
    /\ IF fb = AllExact
       THEN pc' = "solved" /\ attempt' = attempt
       ELSE IF attempt = MaxAttempts
            THEN pc' = "exhausted" /\ attempt' = attempt
            ELSE pc' = (IF mode = "hard" THEN "round" ELSE "select")
                 /\ attempt' = attempt + 1

\* The rest of a round once the guess is appended and the feedback fb is
\* known: append fb, filter, test for the win, step the for loop.
\* gs is the list guesses with the guess appended, st the cache state.
FinishRound(gs, fb, st) ==
    FinishWith(gs, Append(feedbacks, fb), fb,
        filter_possible_answers(gs, Append(feedbacks, fb), possible_answers,
                                st.cache, st.dirty))

\* the feedbacks a round can receive for its guess (Quit: the user leaves)
RoundFeedbacks(guess) ==
    IF Len(possible) = 1 THEN {AllExact}
    ELSE IF answer # Nothing THEN {get_feedback(guess, answer)}
    ELSE FeedbackInputs(guess, Words)

\* play_wordle lines 196-198 with the result run of the strategy call
SelectWith(run) ==
    \E o \in run.outcomes :
        /\ precomputed_patterns' = run.cache
        /\ cache_dirty' = run.dirty
        /\ IF o.kind = "raise"
           THEN pc' = "raised" /\ UNCHANGED guesses
           ELSE pc' = "feedback" /\ guesses' = Append(guesses, o.value)

\* play_wordle lines 196-198: the strategy is asked for a guess
Select ==
    /\ pc = "select"
    /\ SelectWith(Strategy)
    /\ UNCHANGED <<callVars, fileVars, mode, answer, feedbacks, possible,
                   attempt, batchVars>>

\* play_wordle lines 200-231: the feedback arrives and the round ends
Feedback ==
    /\ pc = "feedback"
    /\ \E fb \in RoundFeedbacks(guesses[Len(guesses)]) :
          IF fb = Quit
          THEN /\ pc' = "quit"
               /\ UNCHANGED <<cacheVars, guesses, feedbacks, possible, attempt>>
          ELSE FinishRound(guesses,
                   fb, [cache |-> precomputed_patterns, dirty |-> cache_dirty])
    /\ UNCHANGED <<callVars, fileVars, mode, answer, batchVars>>

\* play_wordle_hard_mode lines 65-95 with the result run of the selector call
HardRoundWith(run) ==
    \E o \in run.outcomes :
        IF o.kind = "raise" \/ ~Unpack2(o.value).ok
        THEN /\ pc' = "raised"
             /\ precomputed_patterns' = run.cache
             /\ cache_dirty' = run.dirty
             /\ UNCHANGED <<guesses, feedbacks, possible, attempt>>
        ELSE \E fb \in RoundFeedbacks(Unpack2(o.value).first) :
                IF fb = Quit
                THEN /\ pc' = "quit"
                     /\ guesses' = Append(guesses, Unpack2(o.value).first)
                     /\ precomputed_patterns' = run.cache
                     /\ cache_dirty' = run.dirty
                     /\ UNCHANGED <<feedbacks, possible, attempt>>
                ELSE FinishRound(Append(guesses, Unpack2(o.value).first),
                         fb, [cache |-> run.cache, dirty |-> run.dirty])

\* play_wordle_hard_mode lines 65-95: one pass of the for loop.  The value
\* the selector returns is unpacked into (guess, score).
HardRound ==
    /\ pc = "round"
    /\ HardRoundWith(Strategy)
    /\ UNCHANGED <<callVars, fileVars, mode, answer, batchVars>>

\* play_wordle lines 226-241 and back to 190: the game is over ("Solved in"
\* or "Failed to solve"), a save of a dirty cache is attempted (the flag is
\* cleared only when the dump succeeds; a dump that raises after open leaves
\* an unreadable file), and the next game starts.  play_wordle_hard_mode
\* writes nothing.
EndGame ==
    /\ pc \in {"solved", "exhausted"}
    /\ \E save \in SaveOutcomes :
          IF mode = "std" /\ cache_dirty
          THEN /\ cache_file' = Dumped(precomputed_patterns, cache_file, save)
               /\ cache_dirty' = (save # "written")
          ELSE UNCHANGED <<cache_file, cache_dirty>>
    /\ pc' = (IF mode = "hard" THEN "round" ELSE "select")
    /\ NewGame
    /\ UNCHANGED <<callVars, allowed_guesses, possible_answers,
                   first_guess_cache, precomputed_patterns, mode, answer,
                   batchVars>>

Init ==
    /\ NoCall
    /\ SolverInit
    /\ BatchOff

Next ==
    \/ MainSolver
    \/ CallPlayWordle
    \/ MainHardMode
    \/ Select
    \/ Feedback
    \/ HardRound
    \/ EndGame

Spec == Init /\ [][Next]_vars

(***************************************************************************)
(* The batch programs: average_score_calculator.py and                     *)
(* average_score_calculator_hard_mode.py run as scripts.  The simulations  *)
(* run in worker processes; the main process takes the futures as they     *)
(* complete.                                                               *)
(***************************************************************************)
BatchVocabularies == {Tied, Blind}

Pending == [kind |-> "pending"]

\* futures = {executor.submit(...): answer for answer in possible_answers}
Submitted(answers) ==
    For(1, Len(answers), <<>>, LAMBDA fs, i : (answers[i] :> Pending) @@ fs)

BatchInit ==
    /\ NoCall
    /\ \E v \in BatchVocabularies :
          /\ allowed_guesses = v.allowed
          /\ possible_answers = v.answers
          /\ first_guess_cache \in FirstGuessFiles(v)
    /\ cache_file = [kind |-> "absent"]
    /\ precomputed_patterns = EmptyCache
    /\ cache_dirty = FALSE
    /\ pc = "boot"
    /\ NoGame
    /\ BatchOff

\* lines 29-32 (19-22): the simulations are submitted; with no answer the
\* loop is skipped and the division by len(results) raises
Submit ==
    /\ futures' = Submitted(possible_answers)
    /\ as_completed' = {}
    /\ results' = <<>>
    /\ average' = Nothing
    /\ pc' = (IF possible_answers = <<>> THEN "raised" ELSE "collect")

\* python average_score_calculator.py: calculate_average_tries()
MainAverage ==
    /\ pc = "boot"
    /\ mode' = "std"
    /\ Submit
    /\ UNCHANGED <<callVars, fileVars, cacheVars, answer, guesses, feedbacks,
                   possible, attempt>>

\* python average_score_calculator_hard_mode.py:
\* calculate_average_tries_hard_mode()
MainAverageHard ==
    /\ pc = "boot"
    /\ mode' = "hard"
    /\ Submit
    /\ UNCHANGED <<callVars, fileVars, cacheVars, answer, guesses, feedbacks,
                   possible, attempt>>

\* a worker process runs the simulation of one answer to its end; the
\* workers go on when the main process has failed (the with block waits)
Simulate ==
    /\ \E a \in DOMAIN futures :
          /\ futures[a].kind = "pending"
          /\ \E o \in simulate_game(mode = "hard", a, allowed_guesses,
                                    possible_answers, first_guess_cache) :
                futures' = [futures EXCEPT ![a] = o]
    /\ UNCHANGED <<callVars, fileVars, cacheVars, gameVars, as_completed,
                   results, average>>

\* lines 35-42 (25-32) once tries is known: it is appended, and after the
\* last future the average is computed and written
Collected(rs, done) ==
    /\ results' = rs
    /\ IF done = DOMAIN futures
       THEN average' = Average(rs) /\ pc' = "reported"
       ELSE pc' = "collect" /\ UNCHANGED average

\* lines 33-42 (23-32): as_completed yields a finished future and
\* future.result() returns its value or raises its exception
Collect ==
    /\ pc = "collect"
    /\ \E a \in DOMAIN futures \ as_completed :
          /\ futures[a].kind # "pending"
          /\ as_completed' = as_completed \cup {a}
          /\ IF futures[a].kind = "raise"
             THEN pc' = "raised" /\ UNCHANGED <<results, average>>
             ELSE Collected(Append(results, futures[a].value),
                            as_completed \cup {a})
    /\ UNCHANGED <<callVars, fileVars, cacheVars, mode, answer, guesses,
                   feedbacks, possible, attempt, futures>>

BatchNext ==
    \/ MainAverage
    \/ MainAverageHard
    \/ Simulate
    \/ Collect

SpecBatch == BatchInit /\ [][BatchNext]_vars

(***************************************************************************)
(* Properties                                                              *)
(***************************************************************************)
Last(seq) == seq[Len(seq)]

\* C1: once a program runs, the list possible is exactly the words of the
\* answer list, in their order, whose pattern against every guess of the
\* history is the pattern received for it -- whatever the pattern cache
\* held (nothing, the answers against the allowed words only, every pair).
Consistent(w) ==
    \A k \in 1..ZipLen(guesses, feedbacks) :
        get_feedback(guesses[k], w) = feedbacks[k]

C1_FilterExact ==
    pc # "boot" => possible = SelectSeq(possible_answers, Consistent)

\* a third round is about to start on a cache that was filled in lazily:
\* two pairs have narrowed the list, and several words are left
C1_Witness ==
    /\ pc = "select"
    /\ Len(feedbacks) >= 2
    /\ cache_dirty
    /\ Len(possible) >= 2
    /\ Len(possible) < Len(possible_answers)

\* occurrences of letter c in word w
CountIn(w, c) == Cardinality({i \in Positions : w[i] = c})
\* positions of guess g holding c that pattern p marks EXACT or MISPLACED
Credited(g, p, c) ==
    Cardinality({i \in Positions : g[i] = c /\ p[i] \in {"1", "2"}})

\* C2: for every guess, secret and letter c, the EXACT or MISPLACED positions
\* of the pattern that hold c in the guess are at most the occurrences of c
\* in the secret.
C2_CreditBounded ==
    result # Nothing =>
        \A c \in {call.guess[i] : i \in Positions} :
            Credited(call.guess, result.pattern, c) <= CountIn(call.answer, c)

\* a call where the guess repeats a letter more often than the secret holds
\* it, one copy is EXACT, another MISPLACED and a third is left ABSENT
C2_Witness ==
    /\ result # Nothing
    /\ \E c \in {call.guess[i] : i \in Positions} :
          /\ CountIn(call.guess, c) > CountIn(call.answer, c)
          /\ Credited(call.guess, result.pattern, c) = CountIn(call.answer, c)
          /\ \E i, j, k \in Positions :
                /\ call.guess[i] = c /\ result.pattern[i] = "2"
                /\ call.guess[j] = c /\ result.pattern[j] = "1"
                /\ call.guess[k] = c /\ result.pattern[k] = "0"

\* C3 as the specification states it: SPEED against ERASE gives 00100
C3_Original ==
    (call.guess = SPEED /\ call.answer = ERASE /\ result # Nothing)
        => result.pattern = <<"0", "0", "1", "0", "0">>

\* C3 (amended): for guess SPEED and secret ERASE the encoder marks 'S'
\* MISPLACED (ERASE holds an S), 'P' ABSENT, the first 'E' MISPLACED, the
\* second 'E' MISPLACED (ERASE holds two E) and 'D' ABSENT: pattern 10110.
C3_SpeedErase ==
    (call.guess = SPEED /\ call.answer = ERASE /\ result # Nothing)
        => result.pattern = <<"1", "0", "1", "1", "0">>

C3_Witness ==
    call.guess = SPEED /\ call.answer = ERASE /\ result # Nothing

\* the patterns guess g gets against the candidates, in their order
PatternsOf(g, cands) ==
    For(1, Len(cands), <<>>,
        LAMBDA ps, k : Append(ps, get_feedback(g, cands[k])))

\* the sum of the squared bucket sizes: the pairs of candidates that share
\* a bucket.  Over one candidate list it orders the words as the score
\* (this sum divided by the number of candidates) does.
SquareSum(patterns) ==
    Cardinality({p \in (1..Len(patterns)) \X (1..Len(patterns)) :
                    patterns[p[1]] = patterns[p[2]]})

\* the scoring pool
ScoringPool(cands, allowed) ==
    IF Len(cands) <= 2 THEN Range(cands)
    ELSE Range(allowed) \cup Range(cands)

ExactScores(cands, allowed) ==
    {<<g, SquareSum(PatternsOf(g, cands))>> : g \in ScoringPool(cands, allowed)}

\* the words of minimal score
Minimal(scores) ==
    {s[1] : s \in {t \in scores : \A u \in scores : t[2] <= u[2]}}

BestChoice(g, cands, minimal) ==
    /\ g \in minimal
    /\ (minimal \cap Range(cands) # {}) => g \in Range(cands)

\* C4 as the specification states it, for the calls of play_wordle where no
\* precomputed first guess is loaded: with two candidates or more the word
\* returned is a word of the scoring pool of minimal score, and a candidate
\* whenever a candidate has the minimal score.
C4_Original ==
    (pc = "feedback" /\ first_guess_cache = Nothing /\ Len(possible) >= 2)
        => BestChoice(Last(guesses), possible,
                      Minimal(ExactScores(possible, allowed_guesses)))

\* the pairs of the history of the call
HistoryLen == ZipLen(call.guesses, call.feedbacks)
Marked(k, i, mark) == call.feedbacks[k][i] = mark

\* (a) a position marked EXACT for some prior guess holds that guess's letter
PinnedAny(g) ==
    \A k \in 1..HistoryLen, i \in Positions :
        Marked(k, i, "2") => g[i] = call.guesses[k][i]

\* (b) a letter marked MISPLACED in some prior guess occurs in g
Present(g) ==
    \A k \in 1..HistoryLen, i \in Positions :
        Marked(k, i, "1") => \E j \in Positions : g[j] = call.guesses[k][i]

\* (c) g does not hold a letter where it was marked MISPLACED
Moved(g) ==
    \A k \in 1..HistoryLen, i \in Positions :
        Marked(k, i, "1") => g[i] # call.guesses[k][i]

\* C5: on the history of a game, enforce_hard_mode_constraints(guesses,
\* feedbacks, g) is True iff (a) every position marked EXACT for some prior
\* guess holds that guess's letter in g, (b) every letter marked MISPLACED
\* in some prior guess occurs in g, and (c) g holds no letter at a position
\* where that letter was marked MISPLACED.
C5_LegalIff ==
    (call.fn = "enforce_hard_mode_constraints" /\ result # Nothing)
        => (result.legal <=>
                PinnedAny(call.guess) /\ Present(call.guess) /\ Moved(call.guess))

\* the check has accepted a word on a history of two pairs that marks a
\* position EXACT and a letter MISPLACED: the word holds the pinned letter,
\* and the MISPLACED letter at another position than the marked one
C5_Witness ==
    /\ call.fn = "enforce_hard_mode_constraints"
    /\ result # Nothing
    /\ result.legal
    /\ HistoryLen = 2
    /\ \E k \in 1..HistoryLen, i \in Positions : Marked(k, i, "2")
    /\ \E k \in 1..HistoryLen, i \in Positions : Marked(k, i, "1")

Legal(w) == enforce_hard_mode_constraints(call.guesses, call.feedbacks, w)

\* C6 as the specification states it: for every history and candidate
\* list, when at least one word of the guess pool passes the legality check
\* against the history, every word minimax_entropy_hard_mode can return
\* passes it; an illegal word is returned only when no pool word is legal
C6_Original ==
    (/\ call.fn = "minimax_entropy_hard_mode"
     /\ result # Nothing
     /\ \E w \in Range(call.allowed) : Legal(w))
        => \A o \in result.outcomes : o.kind = "return" => Legal(o.value)

\* C7 as the specification states it: a simulation that has ended has
\* returned an integer from 1 to 7 and has not raised
C7_Original ==
    \A a \in DOMAIN futures :
        futures[a].kind # "pending"
            => futures[a].kind = "return" /\ futures[a].value \in 1..(MaxAttempts + 1)

\* C8 as the specification states it: the batch is never aborted, and every
\* future taken has added a result
C8_Original ==
    /\ pc # "raised"
    /\ Len(results) = Cardinality(as_completed)

\* C9: a guess is requested only in one of the six rounds of a game that no
\* all-EXACT pattern has ended; the round that receives the all-EXACT
\* pattern, and no other, ends the game SOLVED; the sixth round, and no
\* other, ends it EXHAUSTED when its pattern is not all-EXACT; and the step
\* after SOLVED or EXHAUSTED starts a game with an empty history and the
\* full answer list.
C9_Rounds ==
    [][/\ pc \in {"select", "round"}
            => /\ attempt \in 1..MaxAttempts
               /\ Len(guesses) = attempt - 1
               /\ \A k \in 1..Len(feedbacks) : feedbacks[k] # AllExact
       /\ Len(feedbacks') = Len(feedbacks) + 1
            => /\ pc' = "solved" <=> Last(feedbacks') = AllExact
               /\ pc' = "exhausted"
                     <=> Last(feedbacks') # AllExact /\ Len(feedbacks') = MaxAttempts
       /\ pc \in {"solved", "exhausted"}
            => /\ pc' \in {"select", "round"}
               /\ guesses' = <<>>
               /\ feedbacks' = <<>>
               /\ possible' = possible_answers]_vars

\* a game was given up after six rounds
C9_Witness ==
    /\ pc = "exhausted"
    /\ Len(guesses) = MaxAttempts
    /\ Len(feedbacks) = MaxAttempts

\* the pattern a lookup of (word, guess) finds or computes
LookedUp(word) ==
    IF HasPair(call.cache, word, call.guess)
    THEN call.cache[word][call.guess]
    ELSE get_feedback(call.guess, word)

\* every pair looked up is in the cache after the call, with the pattern
\* that was there or else the encoder's, and the flag is set by a miss
StoredAll ==
    /\ \A w \in Range(possible_answers) :
          /\ HasPair(result.cache, w, call.guess)
          /\ result.cache[w][call.guess] = LookedUp(w)
    /\ result.dirty =
          (call.dirty \/ \E w \in Range(possible_answers) :
                             ~HasPair(call.cache, w, call.guess))

\* the patterns the call went on with are the patterns looked up
Used ==
    IF call.fn = "filter_possible_answers"
    THEN result.filtered =
             SelectSeq(possible_answers, LAMBDA w : LookedUp(w) = call.feedback)
    ELSE \A i \in 1..Len(result.pattern_counts) :
             result.pattern_counts[i][2] =
                 Cardinality({w \in Range(possible_answers) :
                                 LookedUp(w) = result.pattern_counts[i][1]})

\* C10 as the specification states it: in every state of the cache
C10_Original ==
    result # Nothing => StoredAll /\ Used

\* C10 (amended): when the pattern cache holds at least one row, a lookup of
\* (secret, guess) by the filter or by the scoring loop returns the cached
\* pattern when the pair is present and otherwise computes it with the
\* encoder, stores it under (secret, guess) and sets the dirty flag; when
\* the cache is empty the pattern is computed with the encoder, nothing is
\* stored and the dirty flag is left as it was.
C10_Lookup ==
    result # Nothing =>
        /\ Used
        /\ IF Truthy(call.cache) THEN StoredAll
           ELSE result.cache = call.cache /\ result.dirty = call.dirty

\* a call on a cache that held a pattern of its own for one pair and
\* nothing for another: the one is kept, the other stored, the flag set
C10_Witness ==
    /\ result # Nothing
    /\ ~call.dirty
    /\ result.dirty
    /\ \E w \in Range(possible_answers) :
          /\ HasPair(call.cache, w, call.guess)
          /\ call.cache[w][call.guess] = Stale
          /\ result.cache[w][call.guess] = Stale
    /\ \E w \in Range(possible_answers) :
          /\ ~HasPair(call.cache, w, call.guess)
          /\ result.cache[w][call.guess] = get_feedback(call.guess, w)

\* the pairs the cache holds in this state are held, with the same pattern,
\* by the cache of the next state
Kept ==
    \A w \in DOMAIN precomputed_patterns :
        /\ w \in DOMAIN precomputed_patterns'
        /\ \A g \in DOMAIN precomputed_patterns[w] :
              /\ g \in DOMAIN precomputed_patterns'[w]
              /\ precomputed_patterns'[w][g] = precomputed_patterns[w][g]

\* C11 as the specification states it: no cache operation (the load of the
\* cache file, the bulk precompute, a lazy fill by the filter or by the
\* scoring loop, a save), in whatever order they come, removes a (secret,
\* guess) pair from the in-memory pattern cache or changes its pattern
C11_Original == [][Kept]_vars

\* helper.validate_feedback: five characters, each of them 0, 1 or 2
validate_feedback(feedback) ==
    IF Len(feedback) # WordLen THEN FALSE
    ELSE \A i \in 1..Len(feedback) : feedback[i] \in {"0", "1", "2"}

\* C12 as the specification states it: a pattern that is not five symbols
\* of 0, 1, 2 is never appended to the history of a game, so it is never
\* passed to the filter
C12_Original ==
    \A k \in 1..Len(feedbacks) : validate_feedback(feedbacks[k])

\* the call took the first-guess shortcut of lines 126-129
ShortcutTaken ==
    FirstGuessShortcut(call.possible, call.allowed, first_guess_cache,
                       possible_answers) # Nothing

\* what the same call can return when no first-guess cache is loaded
FromScratch ==
    minimax_entropy(call.possible, call.allowed, EmptyCache, FALSE, Nothing,
                    possible_answers).outcomes

\* C13 as the specification states it: with the first-guess file that
\* optimize_cache.py writes, the shortcut is taken only for a candidate list
\* that is the whole answer set, and the word it returns is one the scoring
\* procedure returns when run from scratch on the same lists
C13_Original ==
    (/\ result # Nothing
     /\ first_guess_cache = FirstGuessArtifact(allowed_guesses, possible_answers)
     /\ ShortcutTaken)
        => /\ Range(call.possible) = Range(possible_answers)
           /\ \A o \in result.outcomes :
                  \E s \in FromScratch : o.kind = s.kind /\ o.value = s.value

\* C14 as the specification states it: for every content of the first-guess
\* cache, a call with no candidate raises and a call with one candidate
\* returns that candidate
C14_Original ==
    result # Nothing =>
        /\ result.outcomes # {}
        /\ Len(call.possible) = 0
              => \A o \in result.outcomes :
                     o.kind = "raise" /\ o.value = "ValueError"
        /\ Len(call.possible) = 1
              => \A o \in result.outcomes :
                     o.kind = "return" /\ o.value = call.possible[1]

\* C15: in a game played against a known answer of the answer list, after
\* every step the answer is in the candidate list (so the list is not empty)
\* and the selector has not raised; and the candidate list a round leaves
\* holds only words of the list the round started with.
C15_SecretStays ==
    [][answer' # Nothing
         => /\ pc' # "raised"
            /\ InList(answer', possible')
            /\ Len(feedbacks') = Len(feedbacks) + 1
                  => Range(possible') \subseteq Range(possible)]_vars

\* the third round of a game against a known answer is about to start, on a
\* list two rounds have narrowed to several words
C15_Witness ==
    /\ answer # Nothing
    /\ pc = "select"
    /\ Len(feedbacks) >= 2
    /\ Len(possible) >= 2
    /\ Len(possible) < Len(possible_answers)

\* word w gets, against every guess of the history of the call, the pattern
\* the history holds for it
ConsistentWith(w) ==
    \A k \in 1..HistoryLen :
        get_feedback(call.guesses[k], w) = call.feedbacks[k]

\* the candidate list the filter leaves for the history of the call
FilterLeft ==
    filter_possible_answers(call.guesses, call.feedbacks, possible_answers,
                            EmptyCache, FALSE).filtered

\* C16: a word that is consistent with the whole history passes
\* enforce_hard_mode_constraints for that history; and in
\* minimax_entropy_hard_mode the legality filter removes no word of the
\* candidate list the filter leaves for the history (valid_possible is
\* possible), so no word that can be the secret is excluded.
C16_ConsistentLegal ==
    result # Nothing =>
        IF call.fn = "enforce_hard_mode_constraints"
        THEN ConsistentWith(call.guess) => result.legal
        ELSE /\ call.possible = FilterLeft
                   => \A i \in 1..Len(call.possible) :
                          ConsistentWith(call.possible[i])
             /\ (\A i \in 1..Len(call.possible) :
                     ConsistentWith(call.possible[i]))
                   => ValidOrAll(call.possible, call.guesses, call.feedbacks)
                          = call.possible

\* the check has accepted a word that is consistent with a history of two
\* pairs which marks a letter MISPLACED and a position EXACT
C16_Witness ==
    /\ call.fn = "enforce_hard_mode_constraints"
    /\ result # Nothing
    /\ result.legal
    /\ HistoryLen = 2
    /\ ConsistentWith(call.guess)
    /\ \E k \in 1..HistoryLen, i \in Positions : Marked(k, i, "1")
    /\ \E k \in 1..HistoryLen, i \in Positions : Marked(k, i, "2")

=============================================================================
